---- MODULE Spec2Model ----
(***************************************************************************)
(* A model of the TCNAE class of src/src/tcnae.py: the hyperparameters     *)
(* stored by __init__, the compiled model installed by build_model, the    *)
(* training loop driven by fit (with the optional EarlyStopping callback)  *)
(* and the array pipeline of predict / predict_validation.                 *)
(*                                                                         *)
(* Numbers.  Array values are integers standing for floats; a mean is kept *)
(* exactly, as the pair [num, den].  Losses and the learned parameters are *)
(* integers in units of 5e-5, so that min_delta = 1e-4 is 2 units.         *)
(* Dropout rates are in tenths (dropout_rate = 0.5 is 5).                  *)
(***************************************************************************)
EXTENDS Integers, Sequences, FiniteSets, TLC

VARIABLES
  pc,      \* "new" before __init__, "idle" between calls, "fitting" inside fit
  args,    \* the arguments the caller gives to the constructor
  cfg,     \* the attributes self.ts_dimension, self.loss, ... set by __init__
  model,   \* self.model: NoModel (None) or the compiled model with its weights
  nextId,  \* identity of the next model object build_model creates
  fit,     \* the locals of the running fit call and of its EarlyStopping callback
  batches, \* the batches the caller holds and passes to predict
  last     \* the most recent call on the instance, with its argument and result

vars == <<pc, args, cfg, model, nextId, fit, batches, last>>

----------------------------------------------------------------------------
(* Bounds of the model. *)

MaxDim == 2        \* ts_dimension and input channels range over 1..MaxDim
MaxBatch == 2      \* batch sizes range over 1..MaxBatch
MaxLoss == 4       \* validation losses / parameter values range over 0..MaxLoss
MaxEpochs == 4     \* the epochs argument of fit ranges over 1..MaxEpochs
MaxTrained == 4    \* fit is not called with epochs that take the weights past this
MaxBuilds == 1     \* the user calls build_model at most this many times

(* Program constants. *)

WindowLen == 128   \* Input(batch_shape=(None, 128, 1))
InChannels == 1    \* Input(batch_shape=(None, 128, 1))
Patience == 2      \* EarlyStopping(patience=2)
MinDelta == 2      \* EarlyStopping(min_delta=1e-4), in units of 5e-5

Inf == MaxLoss + MinDelta + 1   \* numpy.Inf, above every loss and every loss + min_delta

----------------------------------------------------------------------------
(* Python values: a str, and a tuple of values. *)

PyStr(s) == [kind |-> "str", val |-> s]
PyTuple(items) == [kind |-> "tuple", val |-> items]

----------------------------------------------------------------------------
(* numpy arrays: a shape and the elements in row-major order. *)

RECURSIVE Prod(_)
Prod(shape) == IF shape = <<>> THEN 1 ELSE Head(shape) * Prod(Tail(shape))

\* The n elements of f as a stored sequence (each element computed once).
Stored(f, n) == SubSeq(f, 1, n)

NdArray(shape, data) == [shape |-> shape, data |-> Stored(data, Prod(shape))]

\* Element (i, j, k), counted from 0, of a three-dimensional array.
At3(a, i, j, k) == a.data[(i * a.shape[2] + j) * a.shape[3] + k + 1]

\* f[lo] + ... + f[hi], summed by halves.
RECURSIVE SumRange(_, _, _)
SumRange(f, lo, hi) ==
  IF lo > hi THEN 0
  ELSE IF lo = hi THEN f[lo]
  ELSE LET mid == (lo + hi) \div 2
       IN  SumRange(f, lo, mid) + SumRange(f, mid + 1, hi)

----------------------------------------------------------------------------
(* The batches a caller passes: b series of WindowLen timesteps and c       *)
(* channels, with values 0..2 laid out by the pattern number p.             *)

Series(b, p, c) ==
  NdArray(<<b, WindowLen, c>>,
          [q \in 1..(b * WindowLen * c) |->
             (((((q - 1) \div c) % WindowLen) * (p + 1))
                + ((q - 1) \div (WindowLen * c)) + ((q - 1) % c)) % 3])

Inputs == [b : 1..MaxBatch, p : 0..1, c : 1..MaxDim]

ArrayOf(inp) == Series(inp.b, inp.p, inp.c)

----------------------------------------------------------------------------
(* The layers of the graph build_model wires together.  The TCN blocks, the *)
(* 1x1 convolution and the Dense layer keep the timestep length (padding    *)
(* 'same' or 'causal'); their arithmetic is abstracted to one latent        *)
(* channel and one learned parameter k.  Pooling and upsampling are exact   *)
(* in their lengths and windows.                                            *)

\* Variant: the pooler with padding='same', whose length is rounded up.
PoolLenSame(len, pool) == (len + pool - 1) \div pool

\* Output length of the pooler: padding='valid', strides=None (= pool_size).
PoolLen(len, pool) == (len - pool) \div pool + 1

\* Output length of UpSampling1D(size).
UpLen(len, size) == len * size

\* Timestep length of the model's output for its fixed input length.
OutLen(m) == UpLen(PoolLen(m.input_shape[2], m.pool_size), m.up_size)

\* The random masks a call can draw: a dropout layer of rate 0 draws none.
Masks(rate) == IF rate = 0 THEN {0} ELSE 0..1

\* Whether dropout removes element (i, t) under the random mask of one call.
MaskBit(mask, i, t) == ((i + t + mask) % 2) = 0

\* A dropout layer: active in training mode only; survivors are rescaled.
Dropout(v, rate, training, bit) ==
  IF training /\ rate > 0
    THEN IF bit THEN 0 ELSE (v * 10) \div (10 - rate)
    ELSE v

\* One pass of the graph over the batch x.  The intermediate tensors are
\* flat: element (i, t) of a (B, T) tensor is at index i * T + t + 1.
Forward(m, x, training, mask) ==
  LET B == x.shape[1]
      T == m.input_shape[2]
      s == m.pool_size
      k == m.weights.k
      rate == m.dropout_rate
      \* tcn-enc and the 1x1 convolution
      enc == Stored([q \in 1..(B * T) |->
                       Dropout(At3(x, (q - 1) \div T, (q - 1) % T, 0) + k, rate,
                               training,
                               MaskBit(mask, (q - 1) \div T, (q - 1) % T))],
                    B * T)
      \* the pooler, averaging windows of s timesteps
      n == PoolLen(T, s)
      pooled == Stored([q \in 1..(B * n) |->
                          LET i == (q - 1) \div n
                              j == (q - 1) % n
                          IN  SumRange(enc, i * T + j * s + 1, i * T + j * s + s)
                                \div s],
                       B * n)
      \* UpSampling1D, repeating each timestep, and tcn-dec
      L == UpLen(n, m.up_size)
      dec == Stored([q \in 1..(B * L) |->
                       LET i == (q - 1) \div L
                           t == (q - 1) % L
                       IN  Dropout(pooled[i * n + (t \div m.up_size) + 1] + k, rate,
                                   training, MaskBit(mask, i, t))],
                    B * L)
      \* Dense(ts_dimension): one output unit per channel
      C == m.units
  IN  NdArray(<<B, L, C>>,
              [q \in 1..(B * L * C) |-> dec[((q - 1) \div C) + 1] + ((q - 1) % C)])

\* The framework's check of a batch against Input(batch_shape=...).
InputCompatible(m, x) ==
  /\ Len(x.shape) = 3
  /\ x.shape[2] = m.input_shape[2]
  /\ x.shape[3] = m.input_shape[3]

\* Variant: the graph called in training mode, self.model(x, training=True).
ModelPredictTraining(m, x, mask) == Forward(m, x, TRUE, mask)

\* self.model.predict(x): the graph in inference mode.
ModelPredict(m, x, mask) == Forward(m, x, FALSE, mask)

----------------------------------------------------------------------------
(* The numpy calls of predict and predict_validation. *)

\* numpy.pad(a, ((0, 0), (0, n), (0, 0)), 'constant'), for n >= 0.
NumpyPad(a, n) ==
  LET B == a.shape[1]
      L == a.shape[2]
      C == a.shape[3]
  IN  NdArray(<<B, L + n, C>>,
              [q \in 1..(B * (L + n) * C) |->
                 LET i == (q - 1) \div ((L + n) * C)
                     j == ((q - 1) \div C) % (L + n)
                     c == (q - 1) % C
                 IN  IF j < L THEN At3(a, i, j, c) ELSE 0])

Max(a, b) == IF a >= b THEN a ELSE b

\* Whether two three-dimensional shapes broadcast against each other.
Broadcastable(sa, sb) ==
  /\ Len(sa) = Len(sb)
  /\ \A d \in 1..Len(sa) : sa[d] = sb[d] \/ sa[d] = 1 \/ sb[d] = 1

\* a - b with numpy broadcasting, both three-dimensional.
Subtract(a, b) ==
  LET B == Max(a.shape[1], b.shape[1])
      T == Max(a.shape[2], b.shape[2])
      C == Max(a.shape[3], b.shape[3])
      Pick(x, i, j, c) ==
        At3(x, IF x.shape[1] = 1 THEN 0 ELSE i,
               IF x.shape[2] = 1 THEN 0 ELSE j,
               IF x.shape[3] = 1 THEN 0 ELSE c)
  IN  NdArray(<<B, T, C>>,
              [q \in 1..(B * T * C) |->
                 LET i == (q - 1) \div (T * C)
                     j == ((q - 1) \div C) % T
                     c == (q - 1) % C
                 IN  Pick(a, i, j, c) - Pick(b, i, j, c)])

\* a.squeeze(): every axis of length 1 is removed; the elements stay.
Squeeze(a) == NdArray(SelectSeq(a.shape, LAMBDA d : d # 1), a.data)

\* numpy.square(a).
Square(a) == NdArray(a.shape, [q \in 1..Len(a.data) |-> a.data[q] * a.data[q]])

\* numpy.mean(a, axis=-1): the last axis is reduced (a 0-d array stays 0-d).
MeanLastAxis(a) ==
  IF a.shape = <<>>
    THEN NdArray(<<>>, <<[num |-> a.data[1], den |-> 1]>>)
    ELSE LET n == Len(a.shape)
             L == a.shape[n]
             front == SubSeq(a.shape, 1, n - 1)
         IN  NdArray(front,
                     [q \in 1..Prod(front) |->
                        [num |-> SumRange(a.data, (q - 1) * L + 1, q * L),
                         den |-> L]])

----------------------------------------------------------------------------
(* predict and predict_validation.  The record returned holds the error    *)
(* array (mse), the caller's array as the call leaves it (test_X), and the *)
(* lengths the padding step saw.  A framework or numpy exception is the     *)
(* record Raised.                                                          *)

Raised(error, x) == [raised |-> TRUE, error |-> error, test_X |-> x]

predict_validation(m, validation_X, mask) ==
  IF ~InputCompatible(m, validation_X)
    THEN Raised("ValueError: incompatible input shape", validation_X)
    ELSE
      LET X_rec0 == ModelPredict(m, validation_X, mask)
          width == validation_X.shape[2] - X_rec0.shape[2]
          X_rec == NumpyPad(X_rec0, width)
          E_rec == Squeeze(Subtract(X_rec, validation_X))
          mse == MeanLastAxis(Square(E_rec))
      IN  IF width < 0
            THEN Raised("ValueError: negative pad width", validation_X)
            ELSE [raised |-> FALSE,
                  rec_shape |-> X_rec0.shape,
                  pad_width |-> width,
                  padded_shape |-> X_rec.shape,
                  mse |-> mse,
                  test_X |-> validation_X]

\* Variant: predict without the squeeze() of the error array.
predict_no_squeeze(m, test_X, mask) ==
  IF ~InputCompatible(m, test_X)
    THEN Raised("ValueError: incompatible input shape", test_X)
    ELSE
      LET X_rec0 == ModelPredict(m, test_X, mask)
          width == test_X.shape[2] - X_rec0.shape[2]
          X_rec == NumpyPad(X_rec0, width)
          E_rec == Subtract(X_rec, test_X)
          mse == MeanLastAxis(Square(E_rec))
      IN  IF width < 0
            THEN Raised("ValueError: negative pad width", test_X)
            ELSE [raised |-> FALSE,
                  rec_shape |-> X_rec0.shape,
                  pad_width |-> width,
                  padded_shape |-> X_rec.shape,
                  mse |-> mse,
                  test_X |-> test_X]

\* Variant: predict writing the error into the caller's array.
predict_in_place(m, test_X, mask) ==
  IF ~InputCompatible(m, test_X)
    THEN Raised("ValueError: incompatible input shape", test_X)
    ELSE
      LET X_rec0 == ModelPredict(m, test_X, mask)
          width == test_X.shape[2] - X_rec0.shape[2]
          X_rec == NumpyPad(X_rec0, width)
          E_rec == Squeeze(Subtract(X_rec, test_X))
          mse == MeanLastAxis(Square(E_rec))
      IN  IF width < 0
            THEN Raised("ValueError: negative pad width", test_X)
            ELSE [raised |-> FALSE,
                  rec_shape |-> X_rec0.shape,
                  pad_width |-> width,
                  padded_shape |-> X_rec.shape,
                  mse |-> mse,
                  test_X |-> Subtract(X_rec, test_X)]

predict(m, test_X, mask) ==
  IF ~InputCompatible(m, test_X)
    THEN Raised("ValueError: incompatible input shape", test_X)
    ELSE
      LET X_rec0 == ModelPredict(m, test_X, mask)
          width == test_X.shape[2] - X_rec0.shape[2]
          X_rec == NumpyPad(X_rec0, width)
          E_rec == Squeeze(Subtract(X_rec, test_X))
          mse == MeanLastAxis(Square(E_rec))
      IN  IF width < 0
            THEN Raised("ValueError: negative pad width", test_X)
            ELSE [raised |-> FALSE,
                  rec_shape |-> X_rec0.shape,
                  pad_width |-> width,
                  padded_shape |-> X_rec.shape,
                  mse |-> mse,
                  test_X |-> test_X]

----------------------------------------------------------------------------
(* __init__ and build_model. *)

LossNames == {"mean_squared_error", "logcosh"}

\* The constructor arguments the model enumerates (the others do not reach
\* any state the properties read and keep their defaults).
ArgsOver(dims, rates, drops, losses, stops) ==
  [ts_dimension : dims,
   latent_sample_rate : rates,
   dropout_rate : drops,
   loss : {PyStr(n) : n \in losses},
   use_early_stopping : stops]

NoAttrs == [unset |-> TRUE]   \* no instance attribute is set before __init__
NoModel == [id |-> 0]         \* the class attribute model = None
NoFit == [active |-> FALSE]   \* no fit call is running
NoWeights == [none |-> TRUE]  \* EarlyStopping.best_weights = None

\* The attribute assignments of __init__.
InitAttrs(a) ==
  [ts_dimension |-> a.ts_dimension,
   latent_sample_rate |-> a.latent_sample_rate,
   dropout_rate |-> a.dropout_rate,
   loss |-> PyTuple(<<a.loss>>),
   use_early_stopping |-> a.use_early_stopping]

\* The validation loss of a parameter state: the abstract parameter k is
\* the loss the parameters reach on the validation batch.
ValLoss(w) == w.k

\* Freshly initialised parameters (kernel_initializer draws them at random).
FreshWeights(k) == [k |-> k, trained |-> 0]

\* Variant: a rebuild that carries the weights of the model it replaces.
BuildGraphKeepWeights(c, id, k, old) ==
  [id |-> id,
   input_shape |-> <<0, WindowLen, InChannels>>,
   pool_size |-> c.latent_sample_rate,
   up_size |-> c.latent_sample_rate,
   dropout_rate |-> c.dropout_rate,
   units |-> c.ts_dimension,
   loss |-> c.loss,
   metrics |-> <<c.loss>>,
   amsgrad |-> TRUE,
   weights |-> IF old = NoModel THEN FreshWeights(k) ELSE old.weights]

\* The model build_model compiles from the attributes c: a new object with
\* freshly initialised weights, whatever the model old it replaces.
BuildGraph(c, id, k, old) ==
  [id |-> id,
   input_shape |-> <<0, WindowLen, InChannels>>,
   pool_size |-> c.latent_sample_rate,
   up_size |-> c.latent_sample_rate,
   dropout_rate |-> c.dropout_rate,
   units |-> c.ts_dimension,
   loss |-> c.loss,
   metrics |-> <<c.loss>>,
   amsgrad |-> TRUE,
   weights |-> FreshWeights(k)]

----------------------------------------------------------------------------
(* fit: the framework's epoch loop and the EarlyStopping callback           *)
(* EarlyStopping(monitor='val_loss', patience=2, min_delta=1e-4,            *)
(*               restore_best_weights=True).                                *)

\* my_callbacks: None, or the list holding the one EarlyStopping callback.
MyCallbacks(c) ==
  IF c.use_early_stopping
    THEN <<[monitor |-> "val_loss", patience |-> Patience,
            min_delta |-> MinDelta, restore_best_weights |-> TRUE]>>
    ELSE <<>>

\* monitor_op(current - min_delta, best) with monitor_op = less and the
\* sign of min_delta flipped for a loss: an improvement by more than min_delta.
IsImprovement(cb, current, best) == current < best - cb.min_delta

\* Variant: restore_best_weights=False.
RestoreNone(cb, w, best_weights) == w

\* The weights the model holds once the callback restores: set_weights of
\* the best weights, if any were recorded.
Restore(cb, w, best_weights) ==
  IF cb.restore_best_weights /\ best_weights # NoWeights THEN best_weights ELSE w

\* on_train_begin: the callback's counters at the start of a fit call.
OnTrainBegin(m, epochs, callbacks) ==
  [active |-> TRUE,
   epochs |-> epochs,
   epoch |-> 0,
   callbacks |-> callbacks,
   start |-> m.weights.trained,
   hist |-> <<>>,
   wait |-> 0,
   stopped_epoch |-> 0,
   best |-> Inf,
   best_epoch |-> 0,
   best_weights |-> NoWeights,
   stop_training |-> FALSE]

\* Variant: on_epoch_end stopping one failing epoch early.
OnEpochEndPatienceOne(f, epoch, current, w) ==
  LET cb == f.callbacks[1]
      kept == IF f.best_weights = NoWeights THEN w ELSE f.best_weights
  IN  IF IsImprovement(cb, current, f.best)
        THEN [f |-> [f EXCEPT !.best = current, !.best_epoch = epoch,
                              !.best_weights = w, !.wait = 0],
              weights |-> w]
        ELSE IF f.wait + 1 >= cb.patience - 1 /\ epoch > 0
          THEN [f |-> [f EXCEPT !.wait = f.wait + 1, !.best_weights = kept,
                                !.stopped_epoch = epoch, !.stop_training = TRUE],
                weights |-> Restore(cb, w, kept)]
          ELSE [f |-> [f EXCEPT !.wait = f.wait + 1, !.best_weights = kept],
                weights |-> w]

\* on_epoch_end(epoch, logs) for the weights w the epoch produced, whose
\* validation loss is current.  Yields the callback state and the weights
\* the model holds afterwards.
OnEpochEnd(f, epoch, current, w) ==
  LET cb == f.callbacks[1]
      kept == IF f.best_weights = NoWeights THEN w ELSE f.best_weights
  IN  IF IsImprovement(cb, current, f.best)
        THEN [f |-> [f EXCEPT !.best = current, !.best_epoch = epoch,
                              !.best_weights = w, !.wait = 0],
              weights |-> w]
        ELSE IF f.wait + 1 >= cb.patience /\ epoch > 0
          THEN [f |-> [f EXCEPT !.wait = f.wait + 1, !.best_weights = kept,
                                !.stopped_epoch = epoch, !.stop_training = TRUE],
                weights |-> Restore(cb, w, kept)]
          ELSE [f |-> [f EXCEPT !.wait = f.wait + 1, !.best_weights = kept],
                weights |-> w]

\* The target X_train of self.model.fit(X_train, X_train) has the input's
\* shape; the loss needs the output to broadcast against it.
FitShapesAgree(m) ==
  Broadcastable(<<1, OutLen(m), m.units>>, <<1, m.input_shape[2], m.input_shape[3]>>)

----------------------------------------------------------------------------
(* The state machine. *)

InitOver(argset, held) ==
  /\ pc = "new"
  /\ args \in argset
  /\ cfg = NoAttrs
  /\ model = NoModel
  /\ nextId = 1
  /\ fit = NoFit
  /\ batches = held
  /\ last = [op |-> "none"]

\* TCNAE(...): __init__ stores the arguments and calls build_model.
Construct ==
  /\ pc = "new"
  /\ cfg' = InitAttrs(args)
  /\ \E k \in 0..MaxLoss : model' = BuildGraph(cfg', nextId, k, model)
  /\ nextId' = nextId + 1
  /\ pc' = "idle"
  /\ last' = [op |-> "__init__"]
  /\ UNCHANGED <<args, fit, batches>>

\* build_model(), called again by the user of the instance.
BuildModel ==
  /\ pc = "idle"
  /\ nextId <= MaxBuilds + 1
  /\ \E k \in 0..MaxLoss : model' = BuildGraph(cfg, nextId, k, model)
  /\ nextId' = nextId + 1
  /\ last' = [op |-> "build_model"]
  /\ UNCHANGED <<pc, args, cfg, fit, batches>>

\* fit(X_train, X_valid, epochs=epochs): the call starts training.
FitBegin ==
  /\ pc = "idle"
  /\ FitShapesAgree(model)
  /\ \E epochs \in 1..MaxEpochs :
       /\ model.weights.trained + epochs <= MaxTrained
       /\ fit' = OnTrainBegin(model, epochs, MyCallbacks(cfg))
  /\ pc' = "fitting"
  /\ UNCHANGED <<args, cfg, model, nextId, batches, last>>

\* One epoch of self.model.fit: the optimizer moves the weights (to a state
\* of validation loss k), the loss is logged, the callbacks run.
FitEpoch ==
  /\ pc = "fitting"
  /\ fit.epoch < fit.epochs
  /\ ~fit.stop_training
  /\ \E k \in 0..MaxLoss :
       LET w == [k |-> k, trained |-> model.weights.trained + 1]
           logged == [fit EXCEPT !.epoch = fit.epoch + 1,
                                 !.hist = Append(fit.hist, ValLoss(w))]
           after == IF fit.callbacks = <<>>
                      THEN [f |-> logged, weights |-> w]
                      ELSE OnEpochEnd(logged, fit.epoch, ValLoss(w), w)
       IN  /\ fit' = after.f
           /\ model' = [model EXCEPT !.weights = after.weights]
  /\ UNCHANGED <<pc, args, cfg, nextId, batches, last>>

\* self.model.fit returns: the epochs are used up or a callback stopped the
\* run.  on_train_end restores the best weights in the framework versions
\* that do so at every end of training; the others leave the weights alone.
FitEnd ==
  /\ pc = "fitting"
  /\ fit.epoch = fit.epochs \/ fit.stop_training
  /\ \E restore_on_train_end \in BOOLEAN :
       model' = [model EXCEPT !.weights =
                   IF fit.callbacks # <<>> /\ restore_on_train_end
                     THEN Restore(fit.callbacks[1], model.weights, fit.best_weights)
                     ELSE model.weights]
  /\ last' = [op |-> "fit", stopped |-> fit.stop_training]
  /\ fit' = NoFit
  /\ pc' = "idle"
  /\ UNCHANGED <<args, cfg, nextId, batches>>

\* How many calls in a row, up to 2, have been op on the batch inp.
Run(op, inp) == IF last.op = op /\ last.inp = inp THEN 2 ELSE 1

\* predict(test_X).
Predict ==
  /\ pc = "idle"
  /\ \E inp \in batches, mask \in Masks(model.dropout_rate) :
       last' = [op |-> "predict", inp |-> inp, run |-> Run("predict", inp),
                res |-> predict(model, ArrayOf(inp), mask)]
  /\ UNCHANGED <<pc, args, cfg, model, nextId, fit, batches>>

\* predict_validation(validation_X).
PredictValidation ==
  /\ pc = "idle"
  /\ \E inp \in batches, mask \in Masks(model.dropout_rate) :
       last' = [op |-> "predict_validation", inp |-> inp,
                run |-> Run("predict_validation", inp),
                res |-> predict_validation(model, ArrayOf(inp), mask)]
  /\ UNCHANGED <<pc, args, cfg, model, nextId, fit, batches>>

----------------------------------------------------------------------------
(* The life of one instance: every method, a sampling factor that divides   *)
(* the window, both dropout settings, early stopping on, and two batches    *)
(* (one the model accepts, one with a channel count it rejects when         *)
(* MaxDim > 1).                                                             *)

LifeArgs ==
  ArgsOver({1, MaxDim}, {32}, {0, 5}, {"mean_squared_error"}, {TRUE})

LifeData == {[b |-> MaxBatch, p |-> 1, c |-> 1], [b |-> 1, p |-> 0, c |-> MaxDim]}

Init == InitOver(LifeArgs, LifeData)

Next ==
  \/ Construct
  \/ BuildModel
  \/ FitBegin
  \/ FitEpoch
  \/ FitEnd
  \/ Predict
  \/ PredictValidation

Spec == Init /\ [][Next]_vars

(* The prediction path for every supported sampling factor and every batch. *)

ShapeArgs ==
  ArgsOver({1}, 1..WindowLen, {0}, {"mean_squared_error"}, {FALSE})

ShapeData == {inp \in Inputs : inp.p = 1 /\ inp.c = InChannels}

InitShape == InitOver(ShapeArgs, ShapeData)

NextShape ==
  \/ Construct
  \/ Predict
  \/ PredictValidation

SpecShape == InitShape /\ [][NextShape]_vars

(* Training, with and without early stopping, for both loss names. *)

TrainArgs == ArgsOver(1..MaxDim, {1, WindowLen}, {0}, LossNames, BOOLEAN)

InitTrain == InitOver(TrainArgs, {})

NextTrain ==
  \/ Construct
  \/ BuildModel
  \/ FitBegin
  \/ FitEpoch
  \/ FitEnd

SpecTrain == InitTrain /\ [][NextTrain]_vars

----------------------------------------------------------------------------
(* Properties.                                                              *)

\* The instance is idle and its latest call was a prediction: the model is
\* the one that call ran on.
IsPredictCall == pc = "idle" /\ last.op \in {"predict", "predict_validation"}

Returned == IsPredictCall /\ ~last.res.raised

\* C1: the graph build_model produces has an input shape whose timestep
\* dimension is the window length and whose channel dimension is the
\* configured ts_dimension.
C1_InputShapeMatchesConfig ==
  model # NoModel =>
    /\ model.input_shape[2] = WindowLen
    /\ model.input_shape[3] = cfg.ts_dimension

\* C2: predict and predict_validation return an error array of shape
\* (batch, timesteps), each entry a mean over the channel dimension.
C2_ErrorShapeBatchByTime ==
  Returned =>
    /\ last.res.mse.shape = <<last.inp.b, WindowLen>>
    /\ \A q \in 1..Len(last.res.mse.data) :
         last.res.mse.data[q].den = cfg.ts_dimension

\* C3: for every sampling factor s in 1..window length, the decoder output
\* has length floor(T / s) * s <= T, the pad width T - floor(T / s) * s is
\* never negative, and the padded reconstruction is as long as the input.
C3_PaddedLengthEqualsInput ==
  /\ model # NoModel =>
       /\ OutLen(model) = (WindowLen \div cfg.latent_sample_rate) * cfg.latent_sample_rate
       /\ OutLen(model) <= WindowLen
  /\ (IsPredictCall /\ last.inp.c = InChannels) =>
       /\ ~last.res.raised
       /\ last.res.rec_shape[2] = OutLen(model)
       /\ last.res.pad_width = WindowLen - OutLen(model)
       /\ last.res.pad_width >= 0
       /\ last.res.padded_shape[2] = ArrayOf(last.inp).shape[2]

C3_Witness ==
  /\ pc = "idle"
  /\ last.op = "predict"
  /\ ~last.res.raised
  /\ last.res.pad_width > 0
  /\ last.res.padded_shape[2] = WindowLen

----------------------------------------------------------------------------
(* Early stopping, as a function of the logged validation losses. *)

Front(h) == SubSeq(h, 1, Len(h) - 1)

RECURSIVE MinOf(_)
MinOf(h) ==
  IF Len(h) = 1 THEN h[1]
  ELSE IF h[Len(h)] < MinOf(Front(h)) THEN h[Len(h)] ELSE MinOf(Front(h))

\* The reference value after the losses h: the latest loss that was lower
\* than the reference before it by more than min_delta.
RECURSIVE TrackedBest(_)
TrackedBest(h) ==
  IF h = <<>> THEN Inf
  ELSE IF h[Len(h)] < TrackedBest(Front(h)) - MinDelta
    THEN h[Len(h)]
    ELSE TrackedBest(Front(h))

\* Whether epoch n (from 1) failed to improve on the reference by more than
\* min_delta.
Fails(h, n) == h[n] >= TrackedBest(SubSeq(h, 1, n - 1)) - MinDelta

\* The epoch (from 1) that set the reference; 0 when there is none.
RECURSIVE TrackedEpoch(_)
TrackedEpoch(h) ==
  IF h = <<>> THEN 0
  ELSE IF Fails(h, Len(h)) THEN TrackedEpoch(Front(h)) ELSE Len(h)

\* Whether epoch n is the last of Patience consecutive failing epochs.
StopsAt(h, n) ==
  /\ n >= Patience
  /\ \A j \in 0..(Patience - 1) : Fails(h, n - j)

\* A step in which self.model.fit returns.
FitReturns == pc = "fitting" /\ pc' = "idle"

\* C4, as claimed: with early stopping on, the model fit returns holds the
\* parameters of the best validation loss seen, also when training ends at
\* the epochs limit.
C4_HoldsBestSeen ==
  [][(FitReturns /\ cfg.use_early_stopping)
       => ValLoss(model'.weights) = MinOf(fit.hist)]_vars

\* C4, amended: when fit returns because the early-stop trigger fired, the
\* model holds the parameters of the latest epoch whose validation loss
\* beat the reference by more than min_delta; their loss is within
\* min_delta of the lowest loss logged, not always equal to it.  When fit
\* returns at the epochs limit, the model holds either those parameters or
\* the last epoch's.
TrackedWeights == [k |-> TrackedBest(fit.hist),
                   trained |-> fit.start + TrackedEpoch(fit.hist)]

C4_HoldsTrackedBest ==
  [][(FitReturns /\ cfg.use_early_stopping)
       => /\ fit.stop_training =>
               /\ model'.weights = TrackedWeights
               /\ ValLoss(model'.weights) <= MinOf(fit.hist) + MinDelta
          /\ ~fit.stop_training =>
               model'.weights \in {TrackedWeights, model.weights}]_vars

C4_Witness ==
  /\ pc = "idle"
  /\ last.op = "fit"
  /\ cfg.use_early_stopping
  /\ last.stopped
  /\ model.weights.trained = 1
  /\ ValLoss(model.weights) > 0

----------------------------------------------------------------------------

\* C5: a predict call repeated on the same batch, with no fit or
\* build_model call in between, returns the same error array, whatever the
\* dropout rate and whatever masks the dropout layers would draw.
C5_RepeatedPredictAgrees ==
  [][(last'.op = "predict" /\ last'.run = 2) => last'.res = last.res]_vars

C5_Witness ==
  /\ pc = "idle"
  /\ last.op = "predict"
  /\ last.run = 2
  /\ ~last.res.raised
  /\ model.dropout_rate > 0
  /\ model.weights.trained > 0

\* C6: predict and predict_validation return the same result for the same
\* model and batch.
C6_PredictEqualsPredictValidation ==
  /\ (pc = "idle" /\ last.op = "predict") =>
       \A mask \in Masks(model.dropout_rate) :
         predict_validation(model, ArrayOf(last.inp), mask) = last.res
  /\ (pc = "idle" /\ last.op = "predict_validation") =>
       \A mask \in Masks(model.dropout_rate) :
         predict(model, ArrayOf(last.inp), mask) = last.res

C6_Witness ==
  /\ pc = "idle"
  /\ last.op = "predict_validation"
  /\ ~last.res.raised
  /\ model.units > 1
  /\ model.weights.trained > 0

\* C7: a predict or predict_validation call leaves the model, its weights,
\* the stored hyperparameters and the caller's array as they were.
C7_PredictIsReadOnly ==
  [][(last' # last /\ last'.op \in {"predict", "predict_validation"})
       => /\ model' = model
          /\ cfg' = cfg
          /\ last'.res.test_X = ArrayOf(last'.inp)]_vars

C7_Witness ==
  /\ pc = "idle"
  /\ last.op = "predict"
  /\ ~last.res.raised
  /\ model.weights.trained > 0
  /\ last.res.test_X = ArrayOf(last.inp)

\* C8: the model is set from the end of construction on; only __init__ and
\* build_model install a model object, and it has no trained weights; fit
\* changes the weights of the current object and nothing else of it; the
\* stored hyperparameters never change after __init__.
C8_Lifecycle ==
  /\ [](pc # "new" => (model # NoModel /\ cfg = InitAttrs(args)))
  /\ [][/\ model'.id # model.id =>
             /\ last'.op \in {"__init__", "build_model"}
             /\ model'.weights = FreshWeights(ValLoss(model'.weights))
        /\ model' # model =>
             \/ model'.id # model.id
             \/ /\ pc = "fitting"
                /\ model' = [model EXCEPT !.weights = model'.weights]
        /\ pc # "new" => cfg' = cfg]_vars

C8_Witness ==
  /\ last.op = "build_model"
  /\ model.id = 2
  /\ model.weights.trained = 0
  /\ cfg = InitAttrs(args)

\* C10: build_model compiles with exactly the loss name given to the
\* constructor, as the loss and as the metric.
C10_CompiledLossIsTheName ==
  model # NoModel =>
    /\ model.loss = args.loss
    /\ model.metrics = <<args.loss>>

====
